---- MODULE Spec2Model ----
(***************************************************************************)
(* Model of bsc::value_ptr (include/value_ptr/value_ptr.h): a smart        *)
(* pointer with value semantics.  A cell (value_ptr<T, Deleter>) holds a   *)
(* deleter_ value and impl_, a pointer to a type-erasing shim              *)
(* (pmr_model<D>) that owns the object and keeps a REFERENCE to the        *)
(* deleter_ of the cell that created it.                                   *)
(*                                                                         *)
(* The heap is modelled explicitly: objects and shims have identities      *)
(* (their addresses) that are never reused, so that a pointer to a         *)
(* destroyed shim or a deleter applied to a destroyed object is visible.   *)
(* Cells are numbered in the order of their construction and a destroyed   *)
(* cell's location is not used again.  An operation with undefined         *)
(* behaviour is a nondeterministic choice over its outcomes (a crash, or   *)
(* continuing on stale data); the model records which kind happened in ub  *)
(* and stops there.                                                        *)
(***************************************************************************)
EXTENDS Integers, FiniteSets, Sequences, TLC

VARIABLES cell, shim, obj, last, ub, crashed, ops

vars == <<cell, shim, obj, last, ub, crashed, ops>>

(* ------------------------------ bounds --------------------------------- *)
\* The number of cells a run constructs and the number of operations it
\* performs.
NumCells == 2
MaxOps == 4

\* An operation allocates at most one object, and at most one shim more than
\* there are cells is in use at any time: allocation never runs out.
MaxObj == MaxOps
MaxShim == NumCells + 1

\* nullptr
NULL == 0

\* The value the tests construct their objects with: Derived(22).
FreshVal == 22

Cells == 1..NumCells
Objs == 1..MaxObj
Shims == 1..MaxShim

(* ------------------------ element types -------------------------------- *)
\* A chain of classes, each derived from the one before.
Types == {"Base", "Mid", "Derived"}

Rank(t) == CASE t = "Base" -> 0 [] t = "Mid" -> 1 [] t = "Derived" -> 2

\* std::is_convertible<U*, T*>: U is T or derives from it.
Convertible(U, T) == Rank(U) >= Rank(T)

\* The declared types T of the cells value_ptr<T> the model instantiates.
DeclTypes == {"Base", "Mid"}

\* new D(*ptr_): D's copy constructor applied to an object whose dynamic
\* type is D or derives from it.  The result is exactly a D.  Derived's copy
\* constructor stores od.v_ + 1; the other classes copy the value.
CopyCtor(D, o) ==
  [dyn |-> D, v |-> IF D = "Derived" THEN o.v + 1 ELSE o.v]

(* ------------------------ deletion policy ------------------------------ *)
DeleterVals == {"d0", "d1"}

\* Deleter(): the value-initialised deletion policy.
DefaultDeleter == "d0"

\* model_deleter_(ptr_): the policy value d is applied to object o.
ApplyDeleter(ob, o, d) ==
  [ob EXCEPT ![o] = [@ EXCEPT !.st = "dead", !.dyn = "Base", !.v = NULL,
                              !.dels = @ + 1, !.delwith = d]]

(* ------------------------------ heap ----------------------------------- *)
FreeObjs(ob) == {o \in Objs : ob[o].st = "free"}
FreeShims(sh) == {s \in Shims : sh[s].st = "free"}

\* operator new: the next unused address.
NewObj(ob) == CHOOSE o \in FreeObjs(ob) : \A p \in FreeObjs(ob) : o <= p
NewShim(sh) == CHOOSE s \in FreeShims(sh) : \A p \in FreeShims(sh) : s <= p

\* rel: the object has been handed to the caller by release; hdel: the
\* deletion-policy value of the std::unique_ptr that holds it, if one does.
NoObj == [st |-> "free", dyn |-> "Base", v |-> NULL, dels |-> 0,
          delwith |-> "none", own |-> FALSE, rel |-> FALSE, hdel |-> "none"]
NoShim == [st |-> "free", ptr |-> NULL, ctype |-> "Base", del |-> NULL]
NoCell == [st |-> "none", decl |-> "Base", impl |-> NULL,
           deleter |-> DefaultDeleter]

\* A constructed value_ptr<T, Deleter>.
MkCell(T, impl, del) == [st |-> "live", decl |-> T, impl |-> impl, deleter |-> del]

\* new U(v) at the call site, about to be handed to a cell.
MkObj(U, val, owned) ==
  [st |-> "live", dyn |-> U, v |-> val, dels |-> 0, delwith |-> "none",
   own |-> owned, rel |-> FALSE, hdel |-> "none"]

\* pmr_model<D>::pmr_model(D* ptr, Deleter& del): del is the location of the
\* cell whose deleter_ the shim refers to.
pmr_model(D, ptr, del) == [st |-> "live", ptr |-> ptr, ctype |-> D, del |-> del]

Op(name, a, b, ok) == [op |-> name, a |-> a, b |-> b, ok |-> ok]

\* A completed operation that returned r to its caller.
Ret(name, a, b, r) == [op |-> name, a |-> a, b |-> b, ok |-> TRUE, ret |-> r]

\* The program is still running and may perform another operation.
Running == ub = "none" /\ ops < MaxOps

\* An operation has completed: lst describes it.
Done(lst) == last' = lst /\ ops' = ops + 1

(* --------------------------- observers --------------------------------- *)
Live(c) == cell[c].st = "live"

\* c is the location of the next cell to be constructed.
Fresh(c) == cell[c].st = "none" /\ \A p \in Cells : p < c => cell[p].st # "none"

\* The declared type T of the cell at location c.
Decl(c) == cell[c].decl

\* explicit operator bool
Bool(c) == cell[c].impl # NULL

\* impl_ points to a shim that has been destroyed.
Dangling(c) == cell[c].impl # NULL /\ shim[cell[c].impl].st # "live"

\* value_ptr::get on a non-empty cell
Get(c) == shim[cell[c].impl].ptr

\* *a == *b for the objects x and y as the tests compare them: by value.
Equal(x, y) == x.v = y.v

\* The classes whose copy constructor copies the value (all but Derived,
\* whose copy constructor adds one by design).
CopiesValue(D) == D # "Derived"

\* The objects that cells own or have owned and that are still alive.
LiveOwned(ob) == {o \in Objs : ob[o].st = "live" /\ ob[o].own}

(* ------------------------ shim destruction ----------------------------- *)
\* The storage of a destroyed shim: ptr_ keeps its last value.
KillShim(sh, s) == [sh EXCEPT ![s] = [NoShim EXCEPT !.st = "dead", !.ptr = sh[s].ptr]]

\* operator delete: the storage of the destroyed shims that no cell of cl
\* points to any more goes back to the allocator.
Sweep(sh, cl) ==
  [s \in Shims |->
     IF sh[s].st = "dead" /\ \A c \in Cells : cl[c].impl # s
       THEN NoShim ELSE sh[s]]

Outcome(sh, ob, u, cr) == [sh |-> sh, ob |-> ob, ub |-> u, crashed |-> cr]

\* delete impl_ (pmr_model::~pmr_model): applies the referenced deleter to
\* ptr_ if it is not null.  cl is the state of the cells at that point.
\* Undefined: the shim was already destroyed (stale ptr_ is deleted again, or
\* the program crashes); the referenced deleter_ belongs to a destroyed cell
\* (any policy value may be read, or the program crashes).
DeleteShim(s, cl, sh, ob) ==
  IF sh[s].st # "live" THEN
    {Outcome(sh, ob, "dangling_shim", TRUE)} \cup
    {Outcome(sh, IF sh[s].ptr # NULL THEN ApplyDeleter(ob, sh[s].ptr, d) ELSE ob,
             "dangling_shim", FALSE) : d \in DeleterVals}
  ELSE IF sh[s].ptr = NULL THEN
    {Outcome(KillShim(sh, s), ob, "none", FALSE)}
  ELSE IF cl[sh[s].del].st = "live" THEN
    {Outcome(KillShim(sh, s),
             ApplyDeleter(ob, sh[s].ptr, cl[sh[s].del].deleter), "none", FALSE)}
  ELSE
    {Outcome(sh, ob, "dangling_deleter", TRUE)} \cup
    {Outcome(KillShim(sh, s), ApplyDeleter(ob, sh[s].ptr, d),
             "dangling_deleter", FALSE) : d \in DeleterVals}

\* No shim to delete.
Keep(sh, ob) == {Outcome(sh, ob, "none", FALSE)}

\* The state after an operation whose shim deletion ended as out; cl is the
\* state of the cells when the operation completes.
Commit(out, cl, lst) ==
  /\ shim' = IF out.crashed THEN out.sh ELSE Sweep(out.sh, cl)
  /\ obj' = out.ob
  /\ ub' = out.ub
  /\ crashed' = out.crashed
  /\ cell' = IF out.crashed THEN cell ELSE cl
  /\ Done(lst)

(* ------------------------------ Init ----------------------------------- *)
Init ==
  /\ cell = [c \in Cells |-> NoCell]
  /\ shim = [s \in Shims |-> NoShim]
  /\ obj = [o \in Objs |-> NoObj]
  /\ last = Op("init", NULL, NULL, TRUE)
  /\ ub = "none"
  /\ crashed = FALSE
  /\ ops = 0

(* --------------------------- construction ------------------------------ *)
\* explicit value_ptr(U* ptr) with ptr = new U(FreshVal)
Construct(c, T, U) ==
  /\ Running /\ Fresh(c)
  /\ Convertible(U, T)
  /\ LET o == NewObj(obj)
         s == NewShim(shim)
     IN /\ obj' = [obj EXCEPT ![o] = MkObj(U, FreshVal, TRUE)]
        /\ shim' = [shim EXCEPT ![s] = pmr_model(U, o, c)]
        /\ cell' = [cell EXCEPT ![c] = MkCell(T, s, DefaultDeleter)]
  /\ Done(Op("construct", c, NULL, TRUE))
  /\ UNCHANGED <<ub, crashed>>

\* make_derived_val<Base, Derived>(FreshVal): allocates a Derived and wraps it
\* in a cell declared as Base, value_ptr<Base>(new Derived(FreshVal)).
make_derived_val(c, T, U) ==
  /\ Running /\ Fresh(c)
  /\ U # T /\ Convertible(U, T)
  /\ LET o == NewObj(obj)
         s == NewShim(shim)
     IN /\ obj' = [obj EXCEPT ![o] = MkObj(U, FreshVal, TRUE)]
        /\ shim' = [shim EXCEPT ![s] = pmr_model(U, o, c)]
        /\ cell' = [cell EXCEPT ![c] = MkCell(T, s, DefaultDeleter)]
  /\ Done(Op("make_derived_val", c, NULL, TRUE))
  /\ UNCHANGED <<ub, crashed>>

\* value_ptr(std::nullptr_t) and value_ptr()
ConstructNull(c, T) ==
  /\ Running /\ Fresh(c)
  /\ cell' = [cell EXCEPT ![c] = MkCell(T, NULL, DefaultDeleter)]
  /\ Done(Op("construct_null", c, NULL, TRUE))
  /\ UNCHANGED <<shim, obj, ub, crashed>>

\* ~value_ptr()
Destroy(c) ==
  /\ Running /\ Live(c)
  /\ \E out \in (IF cell[c].impl # NULL
                   THEN DeleteShim(cell[c].impl, cell, shim, obj)
                   ELSE Keep(shim, obj)) :
       Commit(out, [cell EXCEPT ![c] = [NoCell EXCEPT !.st = "dead"]],
              Op("destroy", c, NULL, TRUE))

(* ------------------------------ clone ---------------------------------- *)
\* pmr_model<D>::clone: new pmr_model<D>(new D(*ptr_), model_deleter_).
\* The copy is made by the copy constructor of the captured type D, and the
\* new shim refers to the same deleter_ location as the shim cloned.
\* CloneObj is the object allocated, CloneShim the shim wrapping it at o.
\* A clone that copies through the root class instead of the captured type.
CloneObj_Sliced(s) == CopyCtor("Base", obj[shim[s].ptr])

CloneObj(s) == CopyCtor(shim[s].ctype, obj[shim[s].ptr])

CloneShim(s, o) == pmr_model(shim[s].ctype, o, shim[s].del)

CanAlloc == FreeObjs(obj) # {} /\ FreeShims(shim) # {}

(* ----------------------- copy and move construction -------------------- *)
\* A copy constructor that copies impl_ instead of cloning the shim.
CopyConstruct_Shallow(b, a) ==
  /\ Running /\ Live(a) /\ Fresh(b) /\ ~Dangling(a)
  /\ cell' = [cell EXCEPT ![b] = MkCell(Decl(a), cell[a].impl, cell[a].deleter)]
  /\ Done(Op("copy", b, a, TRUE))
  /\ UNCHANGED <<shim, obj, ub, crashed>>

\* value_ptr(value_ptr const& other): b is constructed from a.
CopyConstruct(b, a) ==
  /\ Running /\ Live(a) /\ Fresh(b) /\ ~Dangling(a)
  /\ IF cell[a].impl = NULL
       THEN /\ cell' = [cell EXCEPT ![b] = MkCell(Decl(a), NULL, cell[a].deleter)]
            /\ UNCHANGED <<shim, obj>>
       ELSE /\ CanAlloc
            /\ LET o == NewObj(obj)
                   s == NewShim(shim)
                   c == CloneObj(cell[a].impl)
               IN /\ obj' = [obj EXCEPT ![o] = MkObj(c.dyn, c.v, TRUE)]
                  /\ shim' = [shim EXCEPT ![s] = CloneShim(cell[a].impl, o)]
                  /\ cell' = [cell EXCEPT ![b] =
                                MkCell(Decl(a), s, cell[a].deleter)]
  /\ Done(Op("copy", b, a, TRUE))
  /\ UNCHANGED <<ub, crashed>>

\* value_ptr(value_ptr const& other) when clone throws: b is not constructed.
CopyConstructFail(b, a) ==
  /\ Running /\ Live(a) /\ Fresh(b) /\ ~Dangling(a)
  /\ cell[a].impl # NULL
  /\ Done(Op("copy", b, a, FALSE))
  /\ UNCHANGED <<cell, shim, obj, ub, crashed>>

\* value_ptr(value_ptr<U, D> const& other): b of declared type T is
\* constructed from a of declared type U # T.  other.impl_ is dereferenced
\* without a test; the new shim is a pmr_model<U> and refers to the deleter_
\* of b, which is default-initialised.
CrossCopyConstruct(b, T, a) ==
  /\ Running /\ Live(a) /\ Fresh(b) /\ ~Dangling(a)
  /\ T # Decl(a) /\ Convertible(Decl(a), T)
  /\ IF cell[a].impl = NULL
       THEN /\ ub' = "null_deref"
            /\ crashed' \in BOOLEAN
            /\ Done(Op("xcopy", b, a, FALSE))
            /\ UNCHANGED <<cell, shim, obj>>
       ELSE /\ FreeObjs(obj) # {} /\ Cardinality(FreeShims(shim)) >= 2
            /\ LET o == NewObj(obj)
                   s1 == NewShim(shim)
                   c == CloneObj(cell[a].impl)
                   sh1 == [shim EXCEPT ![s1] =
                             [CloneShim(cell[a].impl, o) EXCEPT !.ptr = NULL]]
                   s2 == NewShim(sh1)
                   cl1 == [cell EXCEPT ![b] = MkCell(T, s2, DefaultDeleter)]
               IN /\ obj' = [obj EXCEPT ![o] = MkObj(c.dyn, c.v, TRUE)]
                  /\ shim' = Sweep([KillShim(sh1, s1) EXCEPT
                                      ![s2] = pmr_model(Decl(a), o, b)], cl1)
                  /\ cell' = cl1
            /\ Done(Op("xcopy", b, a, TRUE))
            /\ UNCHANGED <<ub, crashed>>

\* A move constructor that does not null other.impl_.
MoveConstruct_KeepSource(b, a) ==
  /\ Running /\ Live(a) /\ Fresh(b)
  /\ cell' = [cell EXCEPT ![b] = MkCell(Decl(a), cell[a].impl, cell[a].deleter)]
  /\ Done(Op("move", b, a, TRUE))
  /\ UNCHANGED <<shim, obj, ub, crashed>>

\* value_ptr(value_ptr&& other): b is constructed from a.
MoveConstruct(b, a) ==
  /\ Running /\ Live(a) /\ Fresh(b)
  /\ cell' = [cell EXCEPT ![b] = MkCell(Decl(a), cell[a].impl, cell[a].deleter),
                          ![a].impl = NULL]
  /\ Done(Op("move", b, a, TRUE))
  /\ UNCHANGED <<shim, obj, ub, crashed>>

(* ------------------------------ assignment ----------------------------- *)
\* value_ptr& operator=(value_ptr other) called with an lvalue: a = b.
\* other is copy-constructed from b, swapped with *this (impl_ and deleter_),
\* and destroyed on return holding what a held.  a and b may be the same cell.
CopyAssign(a, b) ==
  /\ Running /\ Live(a) /\ Live(b) /\ ~Dangling(b)
  /\ Decl(a) = Decl(b)
  /\ cell[b].impl # NULL => CanAlloc
  /\ LET src == cell[b].impl
         o == NewObj(obj)
         s == NewShim(shim)
         c == CloneObj(src)
         ob1 == IF src = NULL THEN obj
                ELSE [obj EXCEPT ![o] = MkObj(c.dyn, c.v, TRUE)]
         sh1 == IF src = NULL THEN shim
                ELSE [shim EXCEPT ![s] = CloneShim(src, o)]
         old == cell[a].impl
         cl1 == [cell EXCEPT ![a].impl = IF src = NULL THEN NULL ELSE s,
                             ![a].deleter = cell[b].deleter]
     IN \E out \in (IF old # NULL THEN DeleteShim(old, cl1, sh1, ob1)
                                  ELSE Keep(sh1, ob1)) :
          Commit(out, cl1, Op("copy_assign", a, b, TRUE))

\* An assignment that destroys what a holds before it clones b, and whose
\* clone then throws.
CopyAssignFail_ResetFirst(a, b) ==
  /\ Running /\ Live(a) /\ Live(b) /\ ~Dangling(b)
  /\ Decl(a) = Decl(b)
  /\ cell[b].impl # NULL
  /\ \E out \in (IF cell[a].impl # NULL
                   THEN DeleteShim(cell[a].impl, cell, shim, obj)
                   ELSE Keep(shim, obj)) :
       Commit(out, [cell EXCEPT ![a].impl = NULL],
              Op("copy_assign", a, b, FALSE))

\* a = b when clone throws while other is being constructed: operator= is
\* never entered.
CopyAssignFail(a, b) ==
  /\ Running /\ Live(a) /\ Live(b) /\ ~Dangling(b)
  /\ Decl(a) = Decl(b)
  /\ cell[b].impl # NULL
  /\ Done(Op("copy_assign", a, b, FALSE))
  /\ UNCHANGED <<cell, shim, obj, ub, crashed>>

\* A move assignment that deletes its own shim and then takes b's impl_,
\* without the swap.
MoveAssign_Naive(a, b) ==
  /\ Running /\ Live(a) /\ Live(b)
  /\ Decl(a) = Decl(b)
  /\ LET cl1 == [[cell EXCEPT ![b].impl = NULL] EXCEPT
                   ![a].impl = cell[b].impl, ![a].deleter = cell[b].deleter]
     IN \E out \in (IF cell[a].impl # NULL
                      THEN DeleteShim(cell[a].impl, cell, shim, obj)
                      ELSE Keep(shim, obj)) :
          Commit(out, cl1, Op("move_assign", a, b, TRUE))

\* value_ptr& operator=(value_ptr other) called with an rvalue:
\* a = std::move(b).  other is move-constructed from b (b.impl_ becomes
\* null), swapped with *this, and destroyed holding what a held.
MoveAssign(a, b) ==
  /\ Running /\ Live(a) /\ Live(b)
  /\ Decl(a) = Decl(b)
  /\ LET cl0 == [cell EXCEPT ![b].impl = NULL]
         old == cl0[a].impl
         cl1 == [cl0 EXCEPT ![a].impl = cell[b].impl,
                            ![a].deleter = cell[b].deleter]
     IN \E out \in (IF old # NULL THEN DeleteShim(old, cl1, shim, obj)
                                  ELSE Keep(shim, obj)) :
          Commit(out, cl1, Op("move_assign", a, b, TRUE))

(* ------------------------------- reset --------------------------------- *)
\* reset() and operator=(std::nullptr_t)
ResetNull(c) ==
  /\ Running /\ Live(c)
  /\ \E out \in (IF cell[c].impl # NULL
                   THEN DeleteShim(cell[c].impl, cell, shim, obj)
                   ELSE Keep(shim, obj)) :
       Commit(out, [cell EXCEPT ![c].impl = NULL], Op("reset", c, NULL, TRUE))

\* A reset(T* ptr) that overwrites impl_ without deleting the old shim.
ResetPtr_Leak(c, U) ==
  /\ Running /\ Live(c)
  /\ Convertible(U, Decl(c))
  /\ CanAlloc
  /\ LET o == NewObj(obj)
         s == NewShim(shim)
     IN /\ obj' = [obj EXCEPT ![o] = MkObj(U, FreshVal, TRUE)]
        /\ shim' = [shim EXCEPT ![s] = pmr_model(Decl(c), o, c)]
        /\ cell' = [cell EXCEPT ![c].impl = s]
  /\ Done(Op("reset_ptr", c, NULL, TRUE))
  /\ UNCHANGED <<ub, crashed>>

\* reset(T* ptr) with ptr = new U(FreshVal): the old shim is deleted, then a
\* pmr_model<T> of the declared type T is allocated for ptr.
ResetPtr(c, U) ==
  /\ Running /\ Live(c)
  /\ Convertible(U, Decl(c))
  /\ CanAlloc
  /\ LET o == NewObj(obj)
         s == NewShim(shim)
         ob1 == [obj EXCEPT ![o] = MkObj(U, FreshVal, FALSE)]
     IN \E out \in (IF cell[c].impl # NULL
                      THEN DeleteShim(cell[c].impl, cell, shim, ob1)
                      ELSE Keep(shim, ob1)) :
          IF out.crashed
            THEN Commit(out, cell, Op("reset_ptr", c, NULL, FALSE))
            ELSE Commit([out EXCEPT !.sh[s] = pmr_model(Decl(c), o, c),
                                    !.ob[o].own = TRUE],
                        [cell EXCEPT ![c].impl = s],
                        Op("reset_ptr", c, NULL, TRUE))

\* reset(T* ptr) when new pmr_model<T> throws: the old shim has been deleted
\* and impl_ has not been assigned.  ptr stays with the caller: no cell ever
\* owns it, and it is not recorded in obj.
ResetPtrFail(c) ==
  /\ Running /\ Live(c)
  /\ \E out \in (IF cell[c].impl # NULL
                   THEN DeleteShim(cell[c].impl, cell, shim, obj)
                   ELSE Keep(shim, obj)) :
       Commit(out, cell, Op("reset_ptr", c, NULL, FALSE))

(* ------------------------- release, swap, deleter ---------------------- *)
\* A release that deletes impl_ without calling impl_->release() first: the
\* shim still holds the object when it is destroyed.
Release_NoShimRelease(c) ==
  /\ Running /\ Live(c) /\ ~Dangling(c)
  /\ cell[c].impl # NULL
  /\ \E out \in DeleteShim(cell[c].impl, cell, shim,
                            [obj EXCEPT ![Get(c)].rel = TRUE]) :
       Commit(out, [cell EXCEPT ![c].impl = NULL],
              Ret("release", c, NULL, Get(c)))

\* T* release(): impl_->release(), delete impl_, impl_ = nullptr.
\* impl_ is dereferenced without a test.  The address returned is recorded.
Release(c) ==
  /\ Running /\ Live(c) /\ ~Dangling(c)
  /\ IF cell[c].impl = NULL
       THEN /\ ub' = "null_deref"
            /\ crashed' \in BOOLEAN
            /\ Done(Op("release", c, NULL, FALSE))
            /\ UNCHANGED <<cell, shim, obj>>
       ELSE /\ LET s == cell[c].impl
                   o == shim[s].ptr
               IN /\ shim' = Sweep(KillShim([shim EXCEPT ![s].ptr = NULL], s),
                                    [cell EXCEPT ![c].impl = NULL])
                  /\ obj' = [obj EXCEPT ![o].rel = TRUE]
            /\ cell' = [cell EXCEPT ![c].impl = NULL]
            /\ Done(Ret("release", c, NULL, Get(c)))
            /\ UNCHANGED <<ub, crashed>>

\* delete ptr by the caller that holds the raw pointer release returned: the
\* object is destroyed without the deletion policy of any cell.
DeleteRaw(o) ==
  /\ Running
  /\ obj[o].st = "live" /\ obj[o].rel /\ obj[o].hdel = "none"
  /\ obj' = [obj EXCEPT ![o] = [@ EXCEPT !.st = "dead", !.dyn = "Base",
                                        !.v = NULL, !.delwith = "caller"]]
  /\ Done(Op("delete_raw", o, NULL, TRUE))
  /\ UNCHANGED <<cell, shim, ub, crashed>>

(* ------------------------------ to_unique ------------------------------ *)
\* A to_unique whose handle is built from get() instead of release(): the
\* cell keeps its shim.
ToUnique_NoRelease(c) ==
  /\ Running /\ Live(c) /\ ~Dangling(c)
  /\ cell[c].impl # NULL
  /\ obj' = [obj EXCEPT ![Get(c)].rel = TRUE,
                        ![Get(c)].hdel = cell[c].deleter]
  /\ Done(Ret("to_unique", c, NULL, Get(c)))
  /\ UNCHANGED <<cell, shim, ub, crashed>>

\* A to_unique whose handle gets a value-initialised deleter.
ToUnique_DefaultDeleter(c) ==
  /\ Running /\ Live(c) /\ ~Dangling(c)
  /\ cell[c].impl # NULL
  /\ LET s == cell[c].impl
         o == shim[s].ptr
     IN /\ shim' = Sweep(KillShim([shim EXCEPT ![s].ptr = NULL], s),
                          [cell EXCEPT ![c].impl = NULL])
        /\ obj' = [obj EXCEPT ![o].rel = TRUE, ![o].hdel = DefaultDeleter]
  /\ cell' = [cell EXCEPT ![c].impl = NULL]
  /\ Done(Ret("to_unique", c, NULL, Get(c)))
  /\ UNCHANGED <<ub, crashed>>

\* std::unique_ptr<T, Deleter> to_unique():
\* std::unique_ptr<T, Deleter>(release(), deleter_).  The handle holds the
\* address release returned and a copy of the cell's deleter_.  release
\* dereferences impl_ without a test.
ToUnique(c) ==
  /\ Running /\ Live(c) /\ ~Dangling(c)
  /\ IF cell[c].impl = NULL
       THEN /\ ub' = "null_deref"
            /\ crashed' \in BOOLEAN
            /\ Done(Op("to_unique", c, NULL, FALSE))
            /\ UNCHANGED <<cell, shim, obj>>
       ELSE /\ LET s == cell[c].impl
                   o == shim[s].ptr
               IN /\ shim' = Sweep(KillShim([shim EXCEPT ![s].ptr = NULL], s),
                                    [cell EXCEPT ![c].impl = NULL])
                  /\ obj' = [obj EXCEPT ![o].rel = TRUE,
                                        ![o].hdel = cell[c].deleter]
            /\ cell' = [cell EXCEPT ![c].impl = NULL]
            /\ Done(Ret("to_unique", c, NULL, Get(c)))
            /\ UNCHANGED <<ub, crashed>>

\* ~unique_ptr of the handle that holds o: its deleter is applied to o.
DestroyUnique(o) ==
  /\ Running
  /\ obj[o].st = "live" /\ obj[o].hdel # "none"
  /\ obj' = ApplyDeleter(obj, o, obj[o].hdel)
  /\ Done(Op("destroy_unique", o, NULL, TRUE))
  /\ UNCHANGED <<cell, shim, ub, crashed>>

\* A swap that exchanges impl_ and leaves the deleter_ values in place.
Swap_ImplOnly(a, b) ==
  /\ Running /\ Live(a) /\ Live(b)
  /\ Decl(a) = Decl(b)
  /\ cell' = [cell EXCEPT ![a].impl = cell[b].impl,
                          ![b].impl = cell[a].impl]
  /\ Done(Op("swap", a, b, TRUE))
  /\ UNCHANGED <<shim, obj, ub, crashed>>

\* void swap(value_ptr& other) and bsc::swap(a, b)
Swap(a, b) ==
  /\ Running /\ Live(a) /\ Live(b)
  /\ Decl(a) = Decl(b)
  /\ cell' = [cell EXCEPT ![a].impl = cell[b].impl,
                          ![a].deleter = cell[b].deleter,
                          ![b].impl = cell[a].impl,
                          ![b].deleter = cell[a].deleter]
  /\ Done(Op("swap", a, b, TRUE))
  /\ UNCHANGED <<shim, obj, ub, crashed>>

\* get_deleter() = d: the deleter is reached by mutable reference.
SetDeleter(c, d) ==
  /\ Running /\ Live(c)
  /\ cell[c].deleter # d
  /\ cell' = [cell EXCEPT ![c].deleter = d]
  /\ Done(Op("set_deleter", c, NULL, TRUE))
  /\ UNCHANGED <<shim, obj, ub, crashed>>

(* ------------------------ comparison and hashing ----------------------- *)
\* An equality that compares the objects instead of their addresses.
operator_eq_ByValue(a, b) == Equal(obj[Get(a)], obj[Get(b)])

\* operator==(value_ptr const& a, value_ptr const& b): a.get() == b.get()
operator_eq(a, b) == Get(a) = Get(b)

\* operator<(value_ptr const& a, value_ptr const& b):
\* std::less<CT>()(a.get(), b.get())
operator_lt(a, b) == Get(a) < Get(b)

\* operator==(value_ptr const& a, std::nullptr_t): !a
operator_eq_null(a) == ~Bool(a)

\* std::hash<pointer>: a function of the address alone, and not injective.
HashPtr(p) == p % 2

\* std::hash<value_ptr<T, D>>::operator(): std::hash<pointer>()(ptr.get())
hash(c) == HashPtr(Get(c))

\* a == b, a < b, and the hashes of a and b are evaluated: each calls get(),
\* which dereferences impl_ without a test.  The results are recorded.
Compare(a, b) ==
  /\ Running /\ Live(a) /\ Live(b) /\ ~Dangling(a) /\ ~Dangling(b)
  /\ IF cell[a].impl = NULL \/ cell[b].impl = NULL
       THEN /\ ub' = "null_deref"
            /\ crashed' \in BOOLEAN
            /\ Done(Op("compare", a, b, FALSE))
       ELSE /\ Done(Ret("compare", a, b,
                        [eq |-> operator_eq(a, b), lt |-> operator_lt(a, b),
                         ha |-> hash(a), hb |-> hash(b)]))
            /\ UNCHANGED <<ub, crashed>>
  /\ UNCHANGED <<cell, shim, obj>>

\* get, operator->, operator*, clone or release through an impl_ that points
\* to a destroyed shim.
UseDangling(c) ==
  /\ Running /\ Live(c) /\ Dangling(c)
  /\ ub' = "dangling_shim"
  /\ crashed' \in BOOLEAN
  /\ Done(Op("use", c, NULL, FALSE))
  /\ UNCHANGED <<cell, shim, obj>>

\* The objects handed to a cell of declared type T are of class T or of the
\* most derived class; make_derived_val is called as the tests call it,
\* make_derived_val<Base, Derived>; a comparison is evaluated once for each
\* pair of cells.
Next ==
  \/ \E c \in Cells, T \in DeclTypes :
       \E U \in {T, "Derived"} : Construct(c, T, U)
  \/ \E c \in Cells : make_derived_val(c, "Base", "Derived")
  \/ \E c \in Cells, T \in DeclTypes : ConstructNull(c, T)
  \/ \E c \in Cells : Destroy(c)
  \/ \E a, b \in Cells : CopyConstruct(b, a)
  \/ \E a, b \in Cells : CopyConstructFail(b, a)
  \/ \E a, b \in Cells, T \in DeclTypes : CrossCopyConstruct(b, T, a)
  \/ \E a, b \in Cells : MoveConstruct(b, a)
  \/ \E a, b \in Cells : CopyAssign(a, b)
  \/ \E a, b \in Cells : CopyAssignFail(a, b)
  \/ \E a, b \in Cells : MoveAssign(a, b)
  \/ \E c \in Cells : ResetNull(c)
  \/ \E c \in Cells : \E U \in {Decl(c), "Derived"} : ResetPtr(c, U)
  \/ \E c \in Cells : ResetPtrFail(c)
  \/ \E c \in Cells : Release(c)
  \/ \E o \in Objs : DeleteRaw(o)
  \/ \E c \in Cells : ToUnique(c)
  \/ \E o \in Objs : DestroyUnique(o)
  \/ \E a, b \in Cells : Swap(a, b)
  \/ \E c \in Cells, d \in DeleterVals : SetDeleter(c, d)
  \/ \E a, b \in Cells : a <= b /\ Compare(a, b)
  \/ \E c \in Cells : UseDangling(c)

Spec == Init /\ [][Next]_vars

(* ------------------------------ claims --------------------------------- *)
\* The step just taken completed operation name on cell a (with b).
Did(name, a, b) == ops' = ops + 1 /\ last' = Op(name, a, b, TRUE)

\* The step just taken is operation name on cell a (with b) and it threw.
Threw(name, a, b) == ops' = ops + 1 /\ last' = Op(name, a, b, FALSE) /\ ub' = "none"

AllDestroyed == ops > 0 /\ \A c \in Cells : ~Live(c)

\* The number of times the deletion policy is to have been applied to an
\* object handed to the caller: once if a std::unique_ptr held it and has
\* been destroyed, never otherwise.
HandleDels(x) == IF x.hdel # "none" /\ x.st = "dead" THEN 1 ELSE 0

\* C1: once every cell has been destroyed, each object a cell ever owned has
\* been passed to the deletion policy exactly once, except the objects handed
\* to the caller by release or to_unique, which the cells never delete.
C1_DeletedExactlyOnce ==
  AllDestroyed =>
    \A o \in Objs :
      obj[o].own =>
        obj[o].dels = (IF obj[o].rel THEN HandleDels(obj[o]) ELSE 1)

C3_ResetThenCopyKeepsType ==
  [][\A a, b \in Cells :
       (last.op = "reset_ptr" /\ last.ok /\ last.a = a /\ Did("copy", b, a))
         => obj'[Get(b)'].dyn = obj[Get(a)].dyn]_vars

\* The shim of the non-empty cell c has captured the class of its object.
Faithful(c) == Bool(c) /\ shim[cell[c].impl].ctype = obj[Get(c)].dyn

\* C4: a cell constructed from a pointer to a derived class, or by
\* make_derived_val, captures that class; every copy of a cell that has
\* captured the class of its object (so every copy of a copy) owns an object
\* of the same class made by that class's copy constructor (22 becomes 23 for
\* Derived) and has captured it too, and the source's object is unchanged.
C4_CopiesKeepDerivedType ==
  [][\A a, b \in Cells :
       /\ (Did("construct", a, NULL) \/ Did("make_derived_val", a, NULL))
            => Faithful(a)' /\ obj'[Get(a)'].v = FreshVal
       /\ ((Did("copy", a, b) \/ Did("copy_assign", a, b)) /\ Faithful(b)
             /\ ~crashed')
            => /\ Faithful(a)'
               /\ obj'[Get(a)'].dyn = obj[Get(b)].dyn
               /\ obj'[Get(a)'].v = IF obj[Get(b)].dyn = "Derived"
                                      THEN obj[Get(b)].v + 1
                                      ELSE obj[Get(b)].v
               /\ a # b => obj'[Get(b)] = obj[Get(b)]]_vars

\* A copy of a copy of Derived(22) behind a cell declared as Base.
C4_Witness ==
  /\ last.op \in {"copy", "copy_assign"} /\ last.ok
  /\ Decl(last.a) = "Base" /\ Faithful(last.a)
  /\ obj[Get(last.a)].dyn = "Derived"
  /\ obj[Get(last.a)].v = FreshVal + 2
  /\ obj[Get(last.b)].v = FreshVal + 1

\* C5: a cell made from another by copy or move shares no state with it:
\* every later operation on it, its destruction included, is well defined
\* whether or not the source has been destroyed, and no operation reads the
\* deleter_ of a destroyed cell.
C5_NoSharedState == ub # "dangling_deleter"

\* C6: b = move(a) with a non-empty leaves a empty and b at the address a
\* held; nothing is allocated, copied or deleted.
C6_MoveTransfers ==
  [][\A a, b \in Cells :
       (Did("move", b, a) /\ Bool(a) /\ ~Dangling(a))
         => /\ ~Bool(a)'
            /\ Bool(b)' /\ Get(b)' = Get(a)
            /\ cell'[b].impl = cell[a].impl
            /\ obj' = obj
            /\ shim' = shim]_vars

C6_Witness ==
  /\ last.op = "move" /\ last.ok
  /\ Live(last.b) /\ ~Bool(last.b)
  /\ Bool(last.a) /\ obj[Get(last.a)].st = "live"

\* C7: if clone throws during a = b, a still owns the same object at the
\* same address, the object has not been released and a's deleter is
\* unchanged.
C7_FailedAssignKeepsTarget ==
  [][\A a, b \in Cells :
       Threw("copy_assign", a, b)
         => /\ cell'[a] = cell[a]
            /\ obj' = obj
            /\ Bool(a) => shim'[cell[a].impl] = shim[cell[a].impl]]_vars

C7_Witness ==
  /\ last.op = "copy_assign" /\ ~last.ok
  /\ last.a # last.b
  /\ Bool(last.a) /\ ~Dangling(last.a) /\ obj[Get(last.a)].st = "live"
  /\ cell[last.a].deleter # cell[last.b].deleter

\* C8: if reset(p) throws, the cell is in its prior state: it owns the object
\* it owned, the object has not been released, and impl_ does not point to a
\* destroyed shim.
C8_FailedResetKeepsCell ==
  [][\A c \in Cells :
       Threw("reset_ptr", c, NULL)
         => /\ cell' = cell /\ obj' = obj /\ shim' = shim
            /\ ~Dangling(c)']_vars

\* C9: copy-constructing from an empty cell, of the same or of another
\* declared type, yields an empty cell and allocates nothing.
C9_CopyOfEmptyIsEmpty ==
  [][\A a, b \in Cells :
       (/\ ops' = ops + 1
        /\ last'.op \in {"copy", "xcopy"} /\ last'.a = b /\ last'.b = a
        /\ ~Bool(a))
         => /\ last'.ok /\ ub' = "none"
            /\ Live(b)' /\ ~Bool(b)'
            /\ obj' = obj /\ shim' = shim]_vars

Returned(name, a, r) == ops' = ops + 1 /\ last' = Ret(name, a, NULL, r)

\* The live cells whose shim holds the address o.
Holders(o) ==
  {c \in Cells : Live(c) /\ cell[c].impl # NULL /\ shim[cell[c].impl].ptr = o}

\* The number of handles (a raw pointer returned by release, or a
\* std::unique_ptr returned by to_unique) that refer to o.
Handles(o) == IF obj[o].rel THEN 1 ELSE 0

\* C11: ownership is exclusive: an allocated object is referred to by at most
\* one live cell or one handle obtained through release or to_unique, never by
\* two cells and never by a cell together with a handle.
C11_ExclusiveOwnership ==
  \A o \in Objs :
    obj[o].st = "live" => Cardinality(Holders(o)) + Handles(o) <= 1

\* Two non-empty cells and a std::unique_ptr, each with an object of its own.
C11_Witness ==
  /\ ub = "none"
  /\ \A c \in Cells : Live(c) /\ Bool(c) /\ obj[Get(c)].st = "live"
  /\ \E o \in Objs : obj[o].st = "live" /\ obj[o].hdel # "none"

\* An object whose address release returned to the caller is alive and no
\* deletion policy has been applied to it, unless the caller has deleted it.
ReleasedIntact(x) ==
  (x.rel /\ x.hdel = "none")
    => x.dels = 0 /\ (x.st = "live" \/ x.delwith = "caller")

\* C12: release() on a non-empty cell returns the address the cell held and
\* leaves the cell empty; the object is the caller's: the deletion policy is
\* not applied to it by release nor by anything the cells do later (their
\* destruction included), and it stays alive until the caller deletes it.
C12_ReleaseHandsOver ==
  [][/\ \A c \in Cells :
          (/\ ops' = ops + 1 /\ last'.op = "release" /\ last'.a = c /\ last'.ok
           /\ Bool(c) /\ ~Dangling(c))
            => /\ last'.ret = Get(c)
               /\ Live(c)' /\ ~Bool(c)'
               /\ obj' = [obj EXCEPT ![Get(c)].rel = TRUE]
               /\ obj'[Get(c)].st = "live"
     /\ \A o \in Objs : ReleasedIntact(obj'[o])]_vars

\* The cell has been destroyed after release: the object is still alive.
C12_Witness ==
  /\ last.op = "destroy" /\ ~Live(last.a)
  /\ \E o \in Objs : /\ obj[o].rel /\ obj[o].hdel = "none"
                      /\ obj[o].st = "live" /\ obj[o].dels = 0

\* The deletion policy has been applied to object o in the step just taken,
\* for the first and only time.
DeletedNow(o) ==
  obj[o].st = "live" /\ obj[o].dels = 0 /\ obj'[o].st = "dead" /\ obj'[o].dels = 1

\* C13: reset() and assignment from null on a non-empty cell apply the
\* deletion policy to the owned object exactly once, in that step, change no
\* other object and leave the cell empty; reset(p) applies it exactly once to
\* the object owned before (if any) and leaves the cell non-empty owning p, so
\* that the number of live owned objects does not grow when a non-empty cell
\* is reset again and again.
C13_ResetReleasesOnce ==
  [][\A c \in Cells :
       /\ (Did("reset", c, NULL) /\ Bool(c) /\ ~Dangling(c) /\ ~crashed')
            => /\ DeletedNow(Get(c))
               /\ \A o \in Objs \ {Get(c)} : obj'[o] = obj[o]
               /\ Live(c)' /\ ~Bool(c)'
       /\ (Did("reset_ptr", c, NULL) /\ ~Dangling(c) /\ ~crashed')
            => /\ Bool(c)' /\ ~Dangling(c)'
               /\ obj[Get(c)'].st = "free"
               /\ obj'[Get(c)'].st = "live" /\ obj'[Get(c)'].own
               /\ \A d \in Cells \ {c} :
                    cell'[d].impl # NULL => shim'[cell'[d].impl].ptr # Get(c)'
               /\ Bool(c) => DeletedNow(Get(c))
               /\ \A o \in Objs \ {Get(c)', IF Bool(c) THEN Get(c) ELSE NULL} :
                    obj'[o] = obj[o]
               /\ Cardinality(LiveOwned(obj')) =
                    Cardinality(LiveOwned(obj)) + (IF Bool(c) THEN 0 ELSE 1)]_vars

\* reset(p) twice on the only cell: two objects deleted once each, one owned.
C13_Witness ==
  /\ last.op = "reset_ptr" /\ last.ok /\ ub = "none"
  /\ Bool(last.a) /\ obj[Get(last.a)].st = "live"
  /\ \A c \in Cells \ {last.a} : cell[c].st = "none"
  /\ Cardinality(LiveOwned(obj)) = 1
  /\ Cardinality({o \in Objs : obj[o].st = "dead" /\ obj[o].dels = 1}) = 2

\* C14: swap(a, b) on two cells of the same declared type exchanges what
\* they own and their deletion-policy values, also when one of them or both
\* are empty; no object or shim is allocated, copied or deleted.
C14_SwapExchanges ==
  [][\A a, b \in Cells :
       Did("swap", a, b)
         => /\ Decl(a) = Decl(b)
            /\ cell'[a].impl = cell[b].impl /\ cell'[b].impl = cell[a].impl
            /\ cell'[a].deleter = cell[b].deleter
            /\ cell'[b].deleter = cell[a].deleter
            /\ Bool(a)' = Bool(b) /\ Bool(b)' = Bool(a)
            /\ (Bool(b) /\ ~Dangling(b)) => Get(a)' = Get(b)
            /\ (Bool(a) /\ ~Dangling(a)) => Get(b)' = Get(a)
            /\ obj' = obj /\ shim' = shim
            /\ \A c \in Cells \ {a, b} : cell'[c] = cell[c]]_vars

\* A non-empty cell has been swapped with an empty one that had another
\* deletion-policy value.
C14_Witness ==
  /\ last.op = "swap" /\ last.ok /\ last.a # last.b
  /\ ~Bool(last.a) /\ Bool(last.b) /\ obj[Get(last.b)].st = "live"
  /\ cell[last.a].deleter # cell[last.b].deleter

\* An object held by a std::unique_ptr is alive and undeleted, or has been
\* deleted exactly once, with the handle's deletion-policy value.
HandleOwns(x) ==
  x.hdel # "none"
    => \/ x.st = "live" /\ x.dels = 0
       \/ x.st = "dead" /\ x.dels = 1 /\ x.delwith = x.hdel

\* C15: to_unique() on a non-empty cell leaves the cell empty and returns a
\* handle that holds the address the cell held (no copy is made) and the
\* cell's deletion-policy value; the object is deleted exactly once, with
\* that value, when the handle is destroyed, and never by a cell.
C15_ToUniqueHandsOver ==
  [][/\ \A c \in Cells :
          (/\ ops' = ops + 1 /\ last'.op = "to_unique" /\ last'.a = c
           /\ last'.ok /\ Bool(c) /\ ~Dangling(c))
            => /\ last'.ret = Get(c)
               /\ Live(c)' /\ ~Bool(c)'
               /\ cell'[c].deleter = cell[c].deleter
               /\ obj' = [obj EXCEPT ![Get(c)].rel = TRUE,
                                     ![Get(c)].hdel = cell[c].deleter]
               /\ obj'[Get(c)].st = "live" /\ obj'[Get(c)].dels = 0
     /\ \A o \in Objs :
          /\ Did("destroy_unique", o, NULL)
               => DeletedNow(o) /\ obj'[o].delwith = obj[o].hdel
          /\ HandleOwns(obj'[o])]_vars

\* A handle that carried a deletion-policy value other than the default has
\* been destroyed.
C15_Witness ==
  /\ last.op = "destroy_unique" /\ last.ok
  /\ obj[last.a].hdel # DefaultDeleter
  /\ obj[last.a].dels = 1 /\ obj[last.a].delwith = obj[last.a].hdel
  /\ \E c \in Cells : Live(c) /\ ~Bool(c)

\* The step just taken evaluated a == b, a < b and the hashes of a and b.
Compared(a, b) ==
  ops' = ops + 1 /\ last'.op = "compare" /\ last'.a = a /\ last'.b = b /\ last'.ok

\* C16: equality and hashing of non-empty cells go by address: a == b holds
\* exactly if a and b hold the same address, a cell and its copy compare
\* unequal although their objects are equal, the hash of a cell is the hash
\* of its address, and cells that compare equal have equal hashes.
C16_IdentityEquality ==
  [][\A a, b \in Cells :
       /\ Compared(a, b)
            => /\ last'.ret.eq <=> (Get(a) = Get(b))
               /\ last'.ret.eq <=> (a = b)
               /\ last'.ret.ha = HashPtr(Get(a))
               /\ last'.ret.hb = HashPtr(Get(b))
               /\ last'.ret.eq => last'.ret.ha = last'.ret.hb
       /\ (Did("copy", b, a) /\ Bool(a))
            => ~operator_eq(a, b)' /\ ~operator_eq(b, a)']_vars

\* A cell has been compared with its copy: the objects are equal, the cells
\* are not.
C16_Witness ==
  /\ last.op = "compare" /\ last.ok /\ last.a # last.b
  /\ Equal(obj[Get(last.a)], obj[Get(last.b)])
  /\ ~last.ret.eq
  /\ last.ret.ha = HashPtr(Get(last.a))

\* C17: a cell made by cross-type copy construction from a cell that has
\* captured the class of its object owns an object of that class and has
\* captured that class too, so that copying it again yields the same class.
C17_CrossCopyCapturesType ==
  [][\A a, b \in Cells :
       (Did("xcopy", b, a) /\ Faithful(a))
         => /\ obj'[Get(b)'].dyn = obj[Get(a)].dyn
            /\ Faithful(b)']_vars

\* C18: the deletion-policy value applied to an object when its cell is
\* destroyed is the value stored in that cell at that moment.
C18_OwnDeleterApplied ==
  [][\A c \in Cells :
       (Did("destroy", c, NULL) /\ Bool(c) /\ ~Dangling(c) /\ ub' = "none")
         => /\ DeletedNow(Get(c))
            /\ obj'[Get(c)].delwith = cell[c].deleter]_vars

\* C19: release() and to_unique() on an empty cell complete without
\* undefined behaviour, return a null pointer or an empty handle, and leave
\* the cell empty and the heap unchanged.
C19_ReleaseOfEmptyIsDefined ==
  [][\A c \in Cells :
       (/\ ops' = ops + 1
        /\ last'.op \in {"release", "to_unique"} /\ last'.a = c
        /\ ~Bool(c))
         => /\ last'.ok /\ ub' = "none"
            /\ Live(c)' /\ ~Bool(c)'
            /\ obj' = obj /\ shim' = shim
            /\ last'.ret = NULL]_vars

\* C20: comparing and hashing cells of which one or both are empty completes
\* without undefined behaviour and treats an empty cell as the null address:
\* the cells are equal exactly if both are empty, as the comparisons with
\* nullptr say, and an empty cell hashes as the null address.
C20_EmptyCellsCompare ==
  [][\A a, b \in Cells :
       (/\ ops' = ops + 1
        /\ last'.op = "compare" /\ last'.a = a /\ last'.b = b
        /\ (~Bool(a) \/ ~Bool(b)))
         => /\ last'.ok /\ ub' = "none"
            /\ last'.ret.eq <=> (operator_eq_null(a) /\ operator_eq_null(b))
            /\ ~Bool(a) => last'.ret.ha = HashPtr(NULL)
            /\ ~Bool(b) => last'.ret.hb = HashPtr(NULL)]_vars
====
